---- MODULE Spec2Model ----
(***************************************************************************)
(* A model of RangeHTTPRequestHandler.py: one request handled by do_GET or *)
(* do_HEAD, through send_head, translate_path, list_directory, guess_type  *)
(* and the streaming loop.  Text is modelled as sequences of one-character  *)
(* strings, so that parsing, formatting and encoding are computed and not   *)
(* assumed.                                                                 *)
(***************************************************************************)
EXTENDS Integers, Sequences, FiniteSets, TLC

VARIABLES
    method,       \* self.command: "GET" or "HEAD"
    target,       \* self.path: the raw request-target, a character sequence
    hasRange,     \* "Range" in self.headers
    rangeHdr,     \* self.headers['range'], a character sequence
    fsize,        \* the size on disk of every regular file of the tree
    pc,           \* the position of the handler in its code
    path,         \* send_head's local `path`: segments below the root
    f,            \* the resource handle: "none", "file" or "StringIO"
    fopen,        \* TRUE while the handle is open
    opened,       \* number of handles that were ever opened
    fpos,         \* the handle's read position
    buf,          \* the StringIO listing buffer (characters)
    file_size,    \* send_head's local file_size (list_directory: length)
    start_range,  \* the window's first offset
    end_range,    \* the window's end
    block_size,   \* do_GET's remaining byte budget
    ret,          \* what send_head returned: "unset", "None" or "tuple"
    statusLines,  \* the codes passed to send_response, in order
    headers,      \* the <<name, value>> pairs passed to send_header, in order
    headerEnds,   \* the number of end_headers calls
    body,         \* the bytes written to wfile, in order
    errBody,      \* TRUE when send_error wrote its explanation body
    exc,          \* the exception that left do_GET/do_HEAD, or "none"
    ioFailed,     \* TRUE once a seek, read or write has failed
    client,       \* what the client keeps of the response to its previous request
    cur,          \* the number of the request whose handler is running
    parked        \* the handlers of the other requests in flight, by number

vars == <<method, target, hasRange, rangeHdr, fsize, pc, path, f, fopen,
          opened, fpos, buf, file_size, start_range, end_range, block_size,
          ret, statusLines, headers, headerEnds, body, errBody, exc, ioFailed,
          client, cur, parked>>

-----------------------------------------------------------------------------
(* Bounds of the model.                                                    *)

MaxSize == 3

MaxNum == 4

\* the number of requests in flight at once
MaxRequests == 2

chunk == 1024 * 4

BigSize == chunk + MaxSize

FileSizes == (0..MaxSize) \cup {BigSize}

RangeNums == (0..MaxNum) \cup {chunk, BigSize - 1, 2 * chunk + 1}

-----------------------------------------------------------------------------
(* Text: characters, decimal formatting, int() and str.split.              *)

Digits == <<"0", "1", "2", "3", "4", "5", "6", "7", "8", "9">>

IsDigit(c) == \E i \in 1..10 : Digits[i] = c

DigitVal(c) == (CHOOSE i \in 1..10 : Digits[i] = c) - 1

RECURSIVE DecNat(_)
DecNat(n) ==
    IF n < 10 THEN <<Digits[n + 1]>>
    ELSE DecNat(n \div 10) \o <<Digits[(n % 10) + 1]>>

\* "{}".format(n) for an int n
Dec(n) == IF n < 0 THEN <<"-">> \o DecNat(0 - n) ELSE DecNat(n)

RECURSIVE NatVal(_)
NatVal(s) ==
    IF s = <<>> THEN 0
    ELSE NatVal(SubSeq(s, 1, Len(s) - 1)) * 10 + DigitVal(s[Len(s)])

IntDigits(s) == IF s # <<>> /\ s[1] \in {"+", "-"} THEN Tail(s) ELSE s

\* int(s) succeeds: an optional sign and at least one digit
IntOk(s) == IntDigits(s) # <<>> /\ \A i \in 1..Len(IntDigits(s)) : IsDigit(IntDigits(s)[i])

\* int(s) when it succeeds
IntVal(s) ==
    IF s # <<>> /\ s[1] = "-" THEN 0 - NatVal(IntDigits(s)) ELSE NatVal(IntDigits(s))

\* the first position of character c in s, 0 when there is none
Find(s, c) ==
    IF \E i \in 1..Len(s) : s[i] = c
    THEN CHOOSE i \in 1..Len(s) : s[i] = c /\ \A j \in 1..(i - 1) : s[j] # c
    ELSE 0

\* s.split(c, 1): one or two pieces
Split1(s, c) ==
    IF Find(s, c) = 0 THEN <<s>>
    ELSE <<SubSeq(s, 1, Find(s, c) - 1), SubSeq(s, Find(s, c) + 1, Len(s))>>

RECURSIVE SplitAll(_, _)
\* s.split(c)
SplitAll(s, c) ==
    IF Find(s, c) = 0 THEN <<s>>
    ELSE <<SubSeq(s, 1, Find(s, c) - 1)>> \o SplitAll(SubSeq(s, Find(s, c) + 1, Len(s)), c)

Min(a, b) == IF a < b THEN a ELSE b

EndsWith(s, c) == s # <<>> /\ s[Len(s)] = c

-----------------------------------------------------------------------------
(* The request-targets, the names and the tree the requests are run on.    *)

T_file == <<"/", "f", ".", "t", "x", "t">>

T_dir == <<"/", "d">>

T_dirSlash == <<"/", "d", "/">>

T_list == <<"/", "e", "/">>

T_unlistable == <<"/", "u", "/">>

T_missing == <<"/", "n", "o", "p", "e">>

T_unopenable == <<"/", "p", ".", "p", "y">>

T_dirQuery == <<"/", "d", "?", "x">>

T_dotdot == <<"/", ".", ".", "/", "f", ".", "t", "x", "t">>

T_sub == <<"/", "e", "/", "s">>

T_index == <<"/", "d", "/", "i", "n", "d", "e", "x", ".", "h", "t", "m", "l">>

T_escaped == <<"/", "e", "%", "2", "F", "s", "/">>

T_fileFrag == <<"/", "f", ".", "t", "x", "t", "#", "a">>

Targets ==
    {T_file, T_dir, T_dirSlash, T_list, T_unlistable, T_missing, T_unopenable,
     T_dirQuery, T_dotdot, T_sub, T_index, T_escaped, T_fileFrag}

\* the longest request-target of PathTargets, in segments
MaxSegs == 3

\* the segments the request-targets of PathTargets are made of
PathSegs ==
    {<<>>, <<".">>, <<".", ".">>, <<"d">>, <<"e">>, <<"f", ".", "t", "x", "t">>,
     <<"%", "2", "E", "%", "2", "E">>, <<".", ".", "%", "2", "F", ".", ".">>,
     <<"C", ":">>}

RECURSIVE SegSeqs(_)
\* the sequences of 1..n segments
SegSeqs(n) ==
    IF n = 0 THEN {}
    ELSE {<<a>> : a \in PathSegs}
         \cup {Append(w, a) : w \in SegSeqs(n - 1), a \in PathSegs}

RECURSIVE JoinSegs(_)
\* "/".join(segs)
JoinSegs(segs) ==
    IF Len(segs) = 1 THEN segs[1]
    ELSE segs[1] \o <<"/">> \o JoinSegs(Tail(segs))

\* request-targets with and without the leading slash, a query or a fragment
PathTargets ==
    {pre \o JoinSegs(w) \o suf :
        pre \in {<<>>, <<"/">>},
        w \in SegSeqs(MaxSegs),
        suf \in {<<>>, <<"?", "x">>, <<"#", ".", ".", "/">>}}

N_f == <<"f", ".", "t", "x", "t">>

N_p == <<"p", ".", "p", "y">>

N_index == <<"i", "n", "d", "e", "x", ".", "h", "t", "m", "l">>

N_d == <<"d">>

N_e == <<"e">>

N_u == <<"u">>

N_s == <<"s">>

N_B == <<"B">>

N_a == <<"a", "&">>

\* one code point outside ASCII (e with acute accent), two bytes in UTF-8
EAcute == "U+00E9"

N_acute == <<EAcute>>

N_g == <<"g">>

T_long == <<"/", "g", "/">>

T_listFrag == <<"/", "e", "#", "a">>

T_unlistableDir == <<"/", "u">>

\* the number of entries of directory g
MaxEntries == 120

\* the names of the entries of g: each starts with a non-ASCII character
LongNames == [k \in 1..MaxEntries |-> <<EAcute>> \o Dec(k)]

\* the directories below the root, as segment sequences
Dirs == {<<>>, <<N_d>>, <<N_e>>, <<N_u>>, <<N_g>>, <<N_e, N_s>>}

\* the regular files below the root
RegularFiles ==
    {<<N_f>>, <<N_p>>, <<N_d, N_index>>, <<N_e, N_B>>, <<N_e, N_a>>, <<N_e, N_acute>>}
        \cup {<<N_g, LongNames[k]>> : k \in 1..MaxEntries}

\* a symbolic link to a regular file
Links == {<<N_e, N_a>>}

isdir(p) == p \in Dirs

exists(p) == p \in Dirs \cup RegularFiles

islink(p) == p \in Links

\* open(path, "rb") succeeds: p.py is a file the server may not read
CanOpen(p) == p \in RegularFiles \ {<<N_p>>}

\* os.listdir(path) succeeds: u is a directory the server may not list
CanList(p) == p \in Dirs \ {<<N_u>>}

\* os.listdir(path), in the directory's own (unsorted) order
listdir(p) ==
    IF p = <<>> THEN <<N_u, N_f, N_e, N_g, N_d, N_p>>
    ELSE IF p = <<N_g>> THEN LongNames
    ELSE IF p = <<N_d>> THEN <<N_index>>
    ELSE IF p = <<N_e>> THEN <<N_s, N_acute, N_a, N_B>>
    ELSE <<>>

\* the byte at offset i (from 0) of every regular file
FileByte(i) == (i * 7 + 3) % 251

\* f.read(n) of a binary file at position pos
FileRead(pos, n) ==
    IF pos >= fsize \/ n <= 0 THEN <<>>
    ELSE [k \in 1..Min(n, fsize - pos) |-> FileByte(pos + k - 1)]

-----------------------------------------------------------------------------
(* translate_path                                                           *)

HexPairs == {<<"2", "F">>, <<"2", "E">>, <<"3", "F">>, <<"2", "5">>}

HexChar(pair) ==
    IF pair = <<"2", "F">> THEN "/"
    ELSE IF pair = <<"2", "E">> THEN "."
    ELSE IF pair = <<"3", "F">> THEN "?"
    ELSE "%"

RECURSIVE unquote(_)
\* urllib.parse.unquote: %XX becomes the character it encodes
unquote(s) ==
    IF s = <<>> THEN <<>>
    ELSE IF s[1] = "%" /\ Len(s) >= 3 /\ <<s[2], s[3]>> \in HexPairs
         THEN <<HexChar(<<s[2], s[3]>>)>> \o unquote(SubSeq(s, 4, Len(s)))
         ELSE <<s[1]>> \o unquote(Tail(s))

RECURSIVE JoinWith(_, _)
\* c.join(parts)
JoinWith(parts, c) ==
    IF parts = <<>> THEN <<>>
    ELSE IF Len(parts) = 1 THEN parts[1]
    ELSE parts[1] \o <<c>> \o JoinWith(Tail(parts), c)

DotDot == <<".", ".">>

Dot == <<".">>

RECURSIVE NormComps(_, _, _)
\* the loop of posixpath.normpath over the components
NormComps(comps, new_comps, initial_slashes) ==
    IF comps = <<>> THEN new_comps
    ELSE LET comp == comps[1]
             rest == Tail(comps)
         IN  IF comp = <<>> \/ comp = Dot
             THEN NormComps(rest, new_comps, initial_slashes)
             ELSE IF comp # DotDot
                     \/ (initial_slashes = 0 /\ new_comps = <<>>)
                     \/ (new_comps # <<>> /\ new_comps[Len(new_comps)] = DotDot)
                  THEN NormComps(rest, Append(new_comps, comp), initial_slashes)
                  ELSE IF new_comps # <<>>
                       THEN NormComps(rest, SubSeq(new_comps, 1, Len(new_comps) - 1), initial_slashes)
                       ELSE NormComps(rest, new_comps, initial_slashes)

StartsWithSlashes(s, n) == Len(s) >= n /\ \A i \in 1..n : s[i] = "/"

InitialSlashes(s) ==
    IF ~StartsWithSlashes(s, 1) THEN 0
    ELSE IF StartsWithSlashes(s, 2) /\ ~StartsWithSlashes(s, 3) THEN 2
    ELSE 1

\* posixpath.normpath
normpath(s) ==
    IF s = <<>> THEN Dot
    ELSE LET joined == JoinWith(NormComps(SplitAll(s, "/"), <<>>, InitialSlashes(s)), "/")
             full == [i \in 1..InitialSlashes(s) |-> "/"] \o joined
         IN  IF full = <<>> THEN Dot ELSE full

RECURSIVE JoinWordsKeepParent(_, _)
\* JoinWords without the test for os.pardir
JoinWordsKeepParent(words, acc) ==
    IF words = <<>> THEN acc
    ELSE IF words[1] = <<>> \/ words[1] = Dot
         THEN JoinWordsKeepParent(Tail(words), acc)
         ELSE JoinWordsKeepParent(Tail(words), Append(acc, words[1]))

RECURSIVE JoinWords(_, _)
\* the loop of translate_path: the words joined onto the root, one at a time
JoinWords(words, acc) ==
    IF words = <<>> THEN acc
    ELSE IF words[1] = <<>> \/ words[1] = Dot \/ words[1] = DotDot
         THEN JoinWords(Tail(words), acc)
         ELSE JoinWords(Tail(words), Append(acc, words[1]))

\* translate_path: the segments below os.getcwd() of the path it returns
translate_path(t) ==
    JoinWords(SplitAll(normpath(unquote(Split1(Split1(t, "?")[1], "#")[1])), "/"), <<>>)

-----------------------------------------------------------------------------
(* guess_type                                                               *)

EXT_txt == <<".", "t", "x", "t">>

EXT_html == <<".", "h", "t", "m", "l">>

EXT_py == <<".", "p", "y">>

\* the part of the class's extension_map the tree uses
extension_map(ext) ==
    IF ext = EXT_txt THEN "text/plain"
    ELSE IF ext = EXT_html THEN "text/html"
    ELSE IF ext = EXT_py THEN "text/plain"
    ELSE "application/octet-stream"

InMap(ext) == ext \in {<<>>, EXT_txt, EXT_html, EXT_py}

Lower(c) == IF c = "B" THEN "b" ELSE c

\* the last position of a "." in s, 0 when there is none
LastDot(s) ==
    IF \E i \in 1..Len(s) : s[i] = "."
    THEN CHOOSE i \in 1..Len(s) : s[i] = "." /\ \A j \in (i + 1)..Len(s) : s[j] # "."
    ELSE 0

\* posixpath.splitext(path)[1] of the last segment; a leading dot is no extension
splitext(name) ==
    IF LastDot(name) <= 1 THEN <<>> ELSE SubSeq(name, LastDot(name), Len(name))

guess_type(p) ==
    LET ext == IF p = <<>> THEN <<>> ELSE splitext(p[Len(p)])
        low == [i \in 1..Len(ext) |-> Lower(ext[i])]
    IN  IF InMap(ext) THEN extension_map(ext)
        ELSE IF InMap(low) THEN extension_map(low)
        ELSE extension_map(<<>>)

-----------------------------------------------------------------------------
(* Characters as code points and as UTF-8 bytes; html.escape; quote.        *)

\* the printable ASCII characters from 32 to 126; the backslash, the backquote
\* and the apostrophe are written by their code-point names
AsciiChars ==
    <<" ", "!", "\"", "#", "$", "%", "&", "U+0027", "(", ")", "*", "+", ",", "-",
      ".", "/", "0", "1", "2", "3", "4", "5", "6", "7", "8", "9", ":", ";",
      "<", "=", ">", "?", "@", "A", "B", "C", "D", "E", "F", "G", "H", "I",
      "J", "K", "L", "M", "N", "O", "P", "Q", "R", "S", "T", "U", "V", "W",
      "X", "Y", "Z", "[", "U+005C", "]", "^", "_", "U+0060", "a", "b", "c", "d", "e",
      "f", "g", "h", "i", "j", "k", "l", "m", "n", "o", "p", "q", "r", "s",
      "t", "u", "v", "w", "x", "y", "z", "{", "|", "}", "~">>

\* ord(c)
Ord(c) ==
    IF c = EAcute THEN 233
    ELSE IF c = "\n" THEN 10
    ELSE 31 + (CHOOSE i \in 1..Len(AsciiChars) : AsciiChars[i] = c)

\* bytes(c, "utf-8") of one character
Utf8Char(c) == IF c = EAcute THEN <<195, 169>> ELSE <<Ord(c)>>

RECURSIVE Utf8(_)
\* bytes(s, "utf-8")
Utf8(s) ==
    IF s = <<>> THEN <<>>
    ELSE IF Len(s) = 1 THEN Utf8Char(s[1])
    ELSE Utf8(SubSeq(s, 1, Len(s) \div 2)) \o Utf8(SubSeq(s, (Len(s) \div 2) + 1, Len(s)))

EscapeChar(c) ==
    IF c = "&" THEN <<"&", "a", "m", "p", ";">>
    ELSE IF c = "<" THEN <<"&", "l", "t", ";">>
    ELSE IF c = ">" THEN <<"&", "g", "t", ";">>
    ELSE IF c = "\"" THEN <<"&", "q", "u", "o", "t", ";">>
    ELSE IF c = "U+0027" THEN <<"&", "#", "x", "2", "7", ";">>
    ELSE <<c>>

RECURSIVE escape(_)
\* html.escape
escape(s) ==
    IF s = <<>> THEN <<>>
    ELSE IF Len(s) = 1 THEN EscapeChar(s[1])
    ELSE escape(SubSeq(s, 1, Len(s) \div 2)) \o escape(SubSeq(s, (Len(s) \div 2) + 1, Len(s)))

QuoteChar(c) ==
    IF c = EAcute THEN <<"%", "C", "3", "%", "A", "9">>
    ELSE IF c = "&" THEN <<"%", "2", "6">>
    ELSE IF c = "?" THEN <<"%", "3", "F">>
    ELSE IF c = "%" THEN <<"%", "2", "5">>
    ELSE IF c = "#" THEN <<"%", "2", "3">>
    ELSE <<c>>

RECURSIVE quote(_)
\* urllib.parse.quote
quote(s) ==
    IF s = <<>> THEN <<>>
    ELSE IF Len(s) = 1 THEN QuoteChar(s[1])
    ELSE quote(SubSeq(s, 1, Len(s) \div 2)) \o quote(SubSeq(s, (Len(s) \div 2) + 1, Len(s)))

-----------------------------------------------------------------------------
(* list_directory: the sort and the listing text.                           *)

LowerName(n) == [i \in 1..Len(n) |-> Lower(n[i])]

RECURSIVE SeqLess(_, _)
\* a < b for two strings, by code points
SeqLess(a, b) ==
    IF b = <<>> THEN FALSE
    ELSE IF a = <<>> THEN TRUE
    ELSE IF Ord(a[1]) # Ord(b[1]) THEN Ord(a[1]) < Ord(b[1])
    ELSE SeqLess(Tail(a), Tail(b))

\* key i comes before key j after a stable sort
SortsBefore(keys, i, j) ==
    \/ SeqLess(keys[i], keys[j])
    \/ (~SeqLess(keys[j], keys[i]) /\ i < j)

\* lst.sort(key = lower): a stable sort
SortNames(lst) ==
    LET n == Len(lst)
        keys == <<>> \o [i \in 1..n |-> LowerName(lst[i])]
        rank == <<>> \o [i \in 1..n |->
                    Cardinality({j \in 1..n : j # i /\ SortsBefore(keys, j, i)}) + 1]
    IN  [r \in 1..n |-> lst[CHOOSE i \in 1..n : rank[i] = r]]

LIT_doctype ==
    <<"<", "!", "D", "O", "C", "T", "Y", "P", "E", " ", "h", "t", "m", "l",
      " ", "P", "U", "B", "L", "I", "C", " ", "\"", "-", "/", "/", "W", "3",
      "C", "/", "/", "D", "T", "D", " ", "H", "T", "M", "L", " ", "3", ".",
      "2", " ", "F", "i", "n", "a", "l", "/", "/", "E", "N", "\"", ">">>

LIT_title_a ==
    <<"<", "h", "t", "m", "l", ">", "\n", "<", "t", "i", "t", "l", "e", ">",
      "D", "i", "r", "e", "c", "t", "o", "r", "y", " ", "l", "i", "s", "t",
      "i", "n", "g", " ", "f", "o", "r", " ">>

LIT_title_b == <<"<", "/", "t", "i", "t", "l", "e", ">", "\n">>

LIT_h2_a ==
    <<"<", "b", "o", "d", "y", ">", "\n", "<", "h", "2", ">", "D", "i", "r",
      "e", "c", "t", "o", "r", "y", " ", "l", "i", "s", "t", "i", "n", "g",
      " ", "f", "o", "r", " ">>

LIT_h2_b == <<"<", "/", "h", "2", ">", "\n">>

LIT_ul == <<"<", "h", "r", ">", "\n", "<", "u", "l", ">", "\n">>

LIT_li_a ==
    <<"<", "l", "i", ">", "<", "a", " ", "h", "r", "e", "f", " ", "=", " ",
      "\"">>

LIT_li_b == <<"\"", ">">>

LIT_li_c == <<"<", "/", "a", ">", "\n">>

LIT_tail ==
    <<"<", "/", "u", "l", ">", "\n", "<", "/", "h", "r", ">", "\n", "<",
      "/", "b", "o", "d", "y", ">", "\n", "<", "/", "h", "t", "m", "l", ">",
      "\n">>

\* the list item of one entry of directory p
ListItem(p, name) ==
    LET fullname == Append(p, name)
        linkname == IF isdir(fullname) THEN name \o <<"/">> ELSE name
        displayname == IF islink(fullname) THEN name \o <<"@">>
                       ELSE IF isdir(fullname) THEN name \o <<"/">>
                       ELSE name
    IN  LIT_li_a \o quote(linkname) \o LIT_li_b \o escape(displayname) \o LIT_li_c

RECURSIVE ListItems(_, _)
ListItems(p, lst) ==
    IF lst = <<>> THEN <<>>
    ELSE IF Len(lst) = 1 THEN ListItem(p, lst[1])
    ELSE ListItems(p, SubSeq(lst, 1, Len(lst) \div 2))
             \o ListItems(p, SubSeq(lst, (Len(lst) \div 2) + 1, Len(lst)))

\* the text list_directory writes into html_text for directory p, request-target t
ListingText(p, t) ==
    LET displaypath == escape(unquote(t))
    IN  LIT_doctype \o LIT_title_a \o displaypath \o LIT_title_b
        \o LIT_h2_a \o displaypath \o LIT_h2_b \o LIT_ul
        \o ListItems(p, SortNames(listdir(p))) \o LIT_tail

-----------------------------------------------------------------------------
(* The Range header: the values the requests carry and their resolution.    *)

BYTES_EQ == <<"b", "y", "t", "e", "s", "=">>

LIT_bytes == <<"b", "y", "t", "e", "s", " ">>

\* the text before the "-"
SFields == {<<>>, <<"x">>} \cup {Dec(n) : n \in RangeNums}

\* the text after the first "-"
EFields == SFields \cup {<<"-", "1">>, <<"1", "-", "0">>}

RangeValues ==
    {BYTES_EQ \o s \o <<"-">> \o e : s \in SFields, e \in EFields}
        \cup {BYTES_EQ \o <<"2">>, <<"1", "-", "2">>}

\* self.headers['range'][6:].split('-', 1)
RangePieces(h) == Split1(SubSeq(h, 7, Len(h)), "-")

\* lines 127-136 raise ValueError: the unpacking or an int() fails
RangeRaises(h) ==
    LET ps == RangePieces(h)
    IN  \/ Len(ps) # 2
        \/ /\ Len(ps) = 2
           /\ \/ ps[1] # <<>> /\ ~IntOk(ps[1])
              \/ ps[1] # <<>> /\ IntOk(ps[1]) /\ ps[2] # <<>> /\ ~IntOk(ps[2])
              \/ ps[1] = <<>> /\ ps[2] # <<>> /\ ~IntOk(ps[2])

\* start_range at the end of lines 122-136 (or when they raise), for total n
RangeStart(has, h, n) ==
    IF ~has \/ Len(RangePieces(h)) # 2 THEN 0
    ELSE LET s == RangePieces(h)[1]
             e == RangePieces(h)[2]
         IN  IF s # <<>> THEN (IF IntOk(s) THEN IntVal(s) ELSE 0)
             ELSE IF e # <<>> /\ IntOk(e) THEN n - Min(n, IntVal(e))
             ELSE 0

\* RangeEnd with the header's inclusive end offset taken as the window's end
RangeEndInclusive(has, h, n) ==
    IF ~has \/ Len(RangePieces(h)) # 2 THEN n
    ELSE LET s == RangePieces(h)[1]
             e == RangePieces(h)[2]
         IN  IF s # <<>> /\ IntOk(s) /\ e # <<>> /\ IntOk(e) THEN IntVal(e)
             ELSE n

\* end_range at the end of lines 122-136 (or when they raise), for total n
RangeEnd(has, h, n) ==
    IF ~has \/ Len(RangePieces(h)) # 2 THEN n
    ELSE LET s == RangePieces(h)[1]
             e == RangePieces(h)[2]
         IN  IF s # <<>> /\ IntOk(s) /\ e # <<>> /\ IntOk(e) THEN IntVal(e) + 1
             ELSE n

\* StatusFor without the partial-content branch
StatusAlways200(has) == 200

\* the code send_head passes to send_response for an opened file
StatusFor(has) == IF has THEN 206 ELSE 200

-----------------------------------------------------------------------------
(* The state after the request line and the headers have been read.         *)

\* the client has made no request before this one
NoPrevious ==
    [kind |-> "none", target |-> <<>>, dir |-> <<>>, statusLines |-> <<>>,
     headers |-> <<>>, headerEnds |-> 0, bodyLen |-> 0, errBody |-> FALSE,
     fopen |-> FALSE, exc |-> "none"]

\* a fresh handler instance: the state of every request before line 88
Fresh ==
    /\ pc = "Start"
    /\ path = <<>>
    /\ f = "none"
    /\ fopen = FALSE
    /\ opened = 0
    /\ fpos = 0
    /\ buf = <<>>
    /\ file_size = 0
    /\ start_range = 0
    /\ end_range = 0
    /\ block_size = 0
    /\ ret = "unset"
    /\ statusLines = <<>>
    /\ headers = <<>>
    /\ headerEnds = 0
    /\ body = <<>>
    /\ errBody = FALSE
    /\ exc = "none"
    /\ ioFailed = FALSE

Init ==
    /\ method \in {"GET", "HEAD"}
    /\ target \in Targets
    /\ hasRange \in BOOLEAN
    /\ rangeHdr \in (IF hasRange THEN RangeValues ELSE {<<>>})
    /\ fsize \in FileSizes
    /\ client = NoPrevious
    /\ cur = 1
    /\ parked = <<>>
    /\ Fresh

\* requests without a Range header, over the request-targets of PathTargets
InitPath ==
    /\ method \in {"GET", "HEAD"}
    /\ target \in PathTargets \cup Targets \cup {T_long, T_listFrag, T_unlistableDir}
    /\ hasRange = FALSE
    /\ rangeHdr = <<>>
    /\ fsize = MaxSize
    /\ client = NoPrevious
    /\ cur = 1
    /\ parked = <<>>
    /\ Fresh

inputs == <<method, target, hasRange, rangeHdr, fsize, client, cur, parked>>

\* the headers send_error(404, ...) sends before its end_headers
ErrorHeaders == <<<<"Connection", "close">>, <<"Content-Type", "text/html;charset=utf-8">>>>

-----------------------------------------------------------------------------
(* send_head                                                                *)

\* line 88-89: path = self.translate_path(self.path)
send_head_translate ==
    /\ pc = "Start"
    /\ path' = translate_path(target)
    /\ pc' = "Dispatch"
    /\ UNCHANGED <<inputs, f, fopen, opened, fpos, buf, file_size, start_range,
                   end_range, block_size, ret, statusLines, headers, headerEnds,
                   body, errBody, exc, ioFailed>>

\* RedirectLocation built from the target without its query string
RedirectLocationNoQuery(t) == Split1(t, "?")[1] \o <<"/">>

\* line 94: self.path + "/"
RedirectLocation(t) == t \o <<"/">>

\* send_head_redirect without the test of line 91 for the trailing slash
send_head_redirect_any_target ==
    /\ pc = "Dispatch"
    /\ isdir(path)
    /\ statusLines' = Append(statusLines, 301)
    /\ headers' = Append(headers, <<"Location", RedirectLocation(target)>>)
    /\ headerEnds' = headerEnds + 1
    /\ ret' = "tuple"
    /\ f' = "none"
    /\ start_range' = 0
    /\ end_range' = 0
    /\ pc' = "Returned"
    /\ UNCHANGED <<inputs, path, fopen, opened, fpos, buf, file_size, block_size,
                   body, errBody, exc, ioFailed>>

\* lines 90-96: a directory asked for without the trailing slash
send_head_redirect ==
    /\ pc = "Dispatch"
    /\ isdir(path)
    /\ ~EndsWith(target, "/")
    /\ statusLines' = Append(statusLines, 301)
    /\ headers' = Append(headers, <<"Location", RedirectLocation(target)>>)
    /\ headerEnds' = headerEnds + 1
    /\ ret' = "tuple"
    /\ f' = "none"
    /\ start_range' = 0
    /\ end_range' = 0
    /\ pc' = "Returned"
    /\ UNCHANGED <<inputs, path, fopen, opened, fpos, buf, file_size, block_size,
                   body, errBody, exc, ioFailed>>

\* lines 98-103: the directory holds an index.html
send_head_index ==
    /\ pc = "Dispatch"
    /\ isdir(path)
    /\ EndsWith(target, "/")
    /\ exists(Append(path, N_index))
    /\ path' = Append(path, N_index)
    /\ pc' = "OpenFile"
    /\ UNCHANGED <<inputs, f, fopen, opened, fpos, buf, file_size, start_range,
                   end_range, block_size, ret, statusLines, headers, headerEnds,
                   body, errBody, exc, ioFailed>>

\* lines 104-105: no index.html, return self.list_directory(path)
send_head_list ==
    /\ pc = "Dispatch"
    /\ isdir(path)
    /\ EndsWith(target, "/")
    /\ ~exists(Append(path, N_index))
    /\ pc' = "ListDirectory"
    /\ UNCHANGED <<inputs, path, f, fopen, opened, fpos, buf, file_size,
                   start_range, end_range, block_size, ret, statusLines, headers,
                   headerEnds, body, errBody, exc, ioFailed>>

\* line 90 is false: not a directory
send_head_file ==
    /\ pc = "Dispatch"
    /\ ~isdir(path)
    /\ pc' = "OpenFile"
    /\ UNCHANGED <<inputs, path, f, fopen, opened, fpos, buf, file_size,
                   start_range, end_range, block_size, ret, statusLines, headers,
                   headerEnds, body, errBody, exc, ioFailed>>

\* lines 106-109: open(path, "rb") succeeds
send_head_open ==
    /\ pc = "OpenFile"
    /\ CanOpen(path)
    /\ f' = "file"
    /\ fopen' = TRUE
    /\ opened' = opened + 1
    /\ fpos' = 0
    /\ pc' = "SendStatus"
    /\ UNCHANGED <<inputs, path, buf, file_size, start_range, end_range,
                   block_size, ret, statusLines, headers, headerEnds, body,
                   errBody, exc, ioFailed>>

\* lines 110-112: open raises IOError, send_error(404), return (None, 0, 0)
send_head_notfound ==
    /\ pc = "OpenFile"
    /\ ~CanOpen(path)
    /\ statusLines' = Append(statusLines, 404)
    /\ headers' = headers \o ErrorHeaders
    /\ headerEnds' = headerEnds + 1
    /\ errBody' = (method # "HEAD")
    /\ ret' = "tuple"
    /\ f' = "none"
    /\ start_range' = 0
    /\ end_range' = 0
    /\ pc' = "Returned"
    /\ UNCHANGED <<inputs, path, fopen, opened, fpos, buf, file_size, block_size,
                   body, exc, ioFailed>>

\* lines 114-119: the status line and the Content-type header
send_head_status ==
    /\ pc = "SendStatus"
    /\ statusLines' = Append(statusLines, StatusFor(hasRange))
    /\ headers' = Append(headers, <<"Content-type", guess_type(path)>>)
    /\ pc' = "ComputeRange"
    /\ UNCHANGED <<inputs, path, f, fopen, opened, fpos, buf, file_size,
                   start_range, end_range, block_size, ret, headerEnds, body,
                   errBody, exc, ioFailed>>

\* lines 120-136: the file's size and the window; a ValueError of line 127,
\* 132, 134 or 136 leaves send_head and its caller
send_head_range ==
    /\ pc = "ComputeRange"
    /\ file_size' = fsize
    /\ headers' = Append(headers, <<"Accept-Ranges", "bytes">>)
    /\ start_range' = RangeStart(hasRange, rangeHdr, fsize)
    /\ end_range' = RangeEnd(hasRange, rangeHdr, fsize)
    /\ IF hasRange /\ RangeRaises(rangeHdr)
       THEN exc' = "ValueError" /\ pc' = "Done"
       ELSE exc' = exc /\ pc' = "SendHeaders"
    /\ UNCHANGED <<inputs, path, f, fopen, opened, fpos, buf, block_size, ret,
                   statusLines, headerEnds, body, errBody, ioFailed>>

\* ContentRange with the end written as the last byte's offset
ContentRangeInclusive(s, e, n) ==
    LIT_bytes \o Dec(s) \o <<"-">> \o Dec(e - 1) \o <<"/">> \o Dec(n)

\* "bytes {}-{}/{}".format(start_range, end_range, file_size)
ContentRange(s, e, n) == LIT_bytes \o Dec(s) \o <<"-">> \o Dec(e) \o <<"/">> \o Dec(n)

\* lines 138-143: Content-Range, Content-Length, end_headers, return
send_head_headers ==
    /\ pc = "SendHeaders"
    /\ headers' = headers \o
           <<<<"Content-Range", ContentRange(start_range, end_range, file_size)>>,
             <<"Content-Length", Dec(end_range - start_range)>>>>
    /\ headerEnds' = headerEnds + 1
    /\ ret' = "tuple"
    /\ pc' = "Returned"
    /\ UNCHANGED <<inputs, path, f, fopen, opened, fpos, buf, file_size,
                   start_range, end_range, block_size, statusLines, body,
                   errBody, exc, ioFailed>>

-----------------------------------------------------------------------------
(* list_directory                                                           *)

\* lines 180-184: os.listdir raises, send_error(404), return None
list_directory_error ==
    /\ pc = "ListDirectory"
    /\ ~CanList(path)
    /\ statusLines' = Append(statusLines, 404)
    /\ headers' = headers \o ErrorHeaders
    /\ headerEnds' = headerEnds + 1
    /\ errBody' = (method # "HEAD")
    /\ ret' = "None"
    /\ pc' = "Returned"
    /\ UNCHANGED <<inputs, path, f, fopen, opened, fpos, buf, file_size,
                   start_range, end_range, block_size, body, exc, ioFailed>>

\* ListingStatus chosen as send_head chooses it for a file
ListingStatusByRange == StatusFor(hasRange)

\* line 213: self.send_response(200), whatever the request's headers
ListingStatus == 200

\* list_directory with html_text one buffer that all requests share
list_directory_shared_buffer ==
    /\ pc = "ListDirectory"
    /\ CanList(path)
    /\ buf' = ListingText(path, target)
    /\ parked' = [i \in 1..Len(parked) |->
                      IF i # cur /\ parked[i].f = "StringIO"
                      THEN [parked[i] EXCEPT !.buf = buf', !.fpos = 0]
                      ELSE parked[i]]
    /\ f' = "StringIO"
    /\ fopen' = TRUE
    /\ opened' = opened + 1
    /\ fpos' = 0
    /\ statusLines' = Append(statusLines, ListingStatus)
    /\ headers' = headers \o
           <<<<"Content-type", "text/html">>,
             <<"Content-length", Dec(Len(buf'))>>>>
    /\ headerEnds' = headerEnds + 1
    /\ ret' = "tuple"
    /\ start_range' = 0
    /\ end_range' = Len(buf')
    /\ pc' = "Returned"
    /\ UNCHANGED <<method, target, hasRange, rangeHdr, fsize, client, cur, path,
                   file_size, block_size, body, errBody, exc, ioFailed>>

\* lines 186-218: the listing is written into a StringIO, 200 and the headers
\* are sent, return (html_text, 0, length)
list_directory ==
    /\ pc = "ListDirectory"
    /\ CanList(path)
    /\ buf' = ListingText(path, target)
    /\ f' = "StringIO"
    /\ fopen' = TRUE
    /\ opened' = opened + 1
    /\ fpos' = 0
    /\ statusLines' = Append(statusLines, ListingStatus)
    /\ headers' = headers \o
           <<<<"Content-type", "text/html">>,
             <<"Content-length", Dec(Len(buf'))>>>>
    /\ headerEnds' = headerEnds + 1
    /\ ret' = "tuple"
    /\ start_range' = 0
    /\ end_range' = Len(buf')
    /\ pc' = "Returned"
    /\ UNCHANGED <<inputs, path, file_size, block_size, body, errBody, exc, ioFailed>>

-----------------------------------------------------------------------------
(* do_GET and do_HEAD                                                       *)

\* lines 43 and 73: unpacking the None list_directory returned raises TypeError
unpack_error ==
    /\ pc = "Returned"
    /\ ret = "None"
    /\ exc' = "TypeError"
    /\ pc' = "Done"
    /\ UNCHANGED <<inputs, path, f, fopen, opened, fpos, buf, file_size,
                   start_range, end_range, block_size, ret, statusLines, headers,
                   headerEnds, body, errBody, ioFailed>>

\* lines 73-75: do_HEAD closes the handle it was given
do_HEAD ==
    /\ pc = "Returned"
    /\ ret = "tuple"
    /\ method = "HEAD"
    /\ fopen' = (IF f # "none" THEN FALSE ELSE fopen)
    /\ pc' = "Done"
    /\ UNCHANGED <<inputs, path, f, opened, fpos, buf, file_size, start_range,
                   end_range, block_size, ret, statusLines, headers, headerEnds,
                   body, errBody, exc, ioFailed>>

\* line 45: send_head gave no handle, do_GET has nothing further to do
do_GET_nothing ==
    /\ pc = "Returned"
    /\ ret = "tuple"
    /\ method = "GET"
    /\ f = "none"
    /\ pc' = "Done"
    /\ UNCHANGED <<inputs, path, f, fopen, opened, fpos, buf, file_size,
                   start_range, end_range, block_size, ret, statusLines, headers,
                   headerEnds, body, errBody, exc, ioFailed>>

\* lines 46-56: f.seek(start_range, 0) and the byte budget
do_GET_seek ==
    /\ pc = "Returned"
    /\ ret = "tuple"
    /\ method = "GET"
    /\ f # "none"
    /\ fpos' = start_range
    /\ block_size' = end_range - start_range
    /\ pc' = "Stream"
    /\ UNCHANGED <<inputs, path, f, fopen, opened, buf, file_size, start_range,
                   end_range, ret, statusLines, headers, headerEnds, body,
                   errBody, exc, ioFailed>>

\* line 46: the seek on the file fails (an I/O error, or an offset beyond the
\* platform's file offsets); nothing catches it
do_GET_seek_error ==
    /\ pc = "Returned"
    /\ ret = "tuple"
    /\ method = "GET"
    /\ f = "file"
    /\ ioFailed' = TRUE
    /\ exc' = "OSError"
    /\ pc' = "Done"
    /\ UNCHANGED <<inputs, path, f, fopen, opened, fpos, buf, file_size,
                   start_range, end_range, block_size, ret, statusLines, headers,
                   headerEnds, body, errBody>>

\* f.read(n) at the handle's position: bytes of the file, or the characters
\* of the StringIO encoded as UTF-8 (lines 61-64)
ReadChars(n) ==
    IF fpos >= Len(buf) \/ n <= 0 THEN <<>>
    ELSE SubSeq(buf, fpos + 1, Min(Len(buf), fpos + n))

\* lines 58-65: one iteration of the loop, the read and the write succeed
do_GET_chunk ==
    /\ pc = "Stream"
    /\ block_size > 0
    /\ LET read_size == Min(chunk, block_size)
       IN  /\ IF f = "StringIO"
              THEN /\ body' = body \o Utf8(ReadChars(read_size))
                   /\ fpos' = fpos + Len(ReadChars(read_size))
              ELSE /\ body' = body \o FileRead(fpos, read_size)
                   /\ fpos' = fpos + Len(FileRead(fpos, read_size))
           /\ block_size' = block_size - read_size
    /\ UNCHANGED <<inputs, pc, path, f, fopen, opened, buf, file_size,
                   start_range, end_range, ret, statusLines, headers, headerEnds,
                   errBody, exc, ioFailed>>

\* do_GET_chunk_error with the exception leaving do_GET instead of the loop
do_GET_chunk_error_propagates ==
    /\ pc = "Stream"
    /\ block_size > 0
    /\ ioFailed' = TRUE
    /\ exc' = "OSError"
    /\ pc' = "Done"
    /\ UNCHANGED <<inputs, path, f, fopen, opened, fpos, buf, file_size,
                   start_range, end_range, block_size, ret, statusLines, headers,
                   headerEnds, body, errBody>>

\* lines 66-68: the read or the write raises, the loop is left
do_GET_chunk_error ==
    /\ pc = "Stream"
    /\ block_size > 0
    /\ ioFailed' = TRUE
    /\ pc' = "Close"
    /\ UNCHANGED <<inputs, path, f, fopen, opened, fpos, buf, file_size,
                   start_range, end_range, block_size, ret, statusLines, headers,
                   headerEnds, body, errBody, exc>>

\* line 58: the budget is used up
do_GET_loop_exit ==
    /\ pc = "Stream"
    /\ block_size <= 0
    /\ pc' = "Close"
    /\ UNCHANGED <<inputs, path, f, fopen, opened, fpos, buf, file_size,
                   start_range, end_range, block_size, ret, statusLines, headers,
                   headerEnds, body, errBody, exc, ioFailed>>

\* line 69: f.close()
do_GET_close ==
    /\ pc = "Close"
    /\ fopen' = FALSE
    /\ pc' = "Done"
    /\ UNCHANGED <<inputs, path, f, opened, fpos, buf, file_size, start_range,
                   end_range, block_size, ret, statusLines, headers, headerEnds,
                   body, errBody, exc, ioFailed>>

Next ==
    \/ send_head_translate
    \/ send_head_redirect
    \/ send_head_index
    \/ send_head_list
    \/ send_head_file
    \/ send_head_open
    \/ send_head_notfound
    \/ send_head_status
    \/ send_head_range
    \/ send_head_headers
    \/ list_directory_error
    \/ list_directory
    \/ unpack_error
    \/ do_HEAD
    \/ do_GET_nothing
    \/ do_GET_seek
    \/ do_GET_seek_error
    \/ do_GET_chunk
    \/ do_GET_chunk_error
    \/ do_GET_loop_exit
    \/ do_GET_close

Spec == Init /\ [][Next]_vars

-----------------------------------------------------------------------------
(* The client: it follows a redirect, and it repeats a HEAD as a GET.  Each  *)
(* request is served by a new handler instance.                             *)

\* a new handler instance is constructed for the next request
NewHandler ==
    /\ pc' = "Start"
    /\ path' = <<>>
    /\ f' = "none"
    /\ fopen' = FALSE
    /\ opened' = 0
    /\ fpos' = 0
    /\ buf' = <<>>
    /\ file_size' = 0
    /\ start_range' = 0
    /\ end_range' = 0
    /\ block_size' = 0
    /\ ret' = "unset"
    /\ statusLines' = <<>>
    /\ headers' = <<>>
    /\ headerEnds' = 0
    /\ body' = <<>>
    /\ errBody' = FALSE
    /\ exc' = "none"
    /\ ioFailed' = FALSE

\* what the client keeps of the response it has just received
Received(kind) ==
    [kind |-> kind, target |-> target, dir |-> path, statusLines |-> statusLines,
     headers |-> headers, headerEnds |-> headerEnds, bodyLen |-> Len(body),
     errBody |-> errBody, fopen |-> fopen, exc |-> exc]

\* the value of the Location header of a response
Location == headers[CHOOSE i \in 1..Len(headers) : headers[i][1] = "Location"][2]

\* the client requests the Location of the 301 it received
follow_redirect ==
    /\ pc = "Done"
    /\ statusLines = <<301>>
    /\ client.kind # "redirect"
    /\ client' = Received("redirect")
    /\ target' = Location
    /\ NewHandler
    /\ UNCHANGED <<method, hasRange, rangeHdr, fsize, cur, parked>>

\* the client sends the request it made with HEAD again with GET
repeat_as_GET ==
    /\ pc = "Done"
    /\ method = "HEAD"
    /\ client.kind = "none"
    /\ client' = Received("HEAD")
    /\ method' = "GET"
    /\ NewHandler
    /\ UNCHANGED <<target, hasRange, rangeHdr, fsize, cur, parked>>

NextClient == Next \/ follow_redirect \/ repeat_as_GET

SpecClient == Init /\ [][NextClient]_vars

SpecPath == InitPath /\ [][NextClient]_vars

-----------------------------------------------------------------------------
(* Several requests in flight: every request has a handler instance of its *)
(* own, with its own fields, locals, handle and listing buffer; the steps   *)
(* of the handlers interleave.                                              *)

\* the fields of a handler instance and the locals of its do_GET/do_HEAD,
\* send_head and list_directory calls, with the objects they refer to
Context ==
    [method |-> method, target |-> target, hasRange |-> hasRange,
     rangeHdr |-> rangeHdr, pc |-> pc, path |-> path, f |-> f, fopen |-> fopen,
     opened |-> opened, fpos |-> fpos, buf |-> buf, file_size |-> file_size,
     start_range |-> start_range, end_range |-> end_range,
     block_size |-> block_size, ret |-> ret, statusLines |-> statusLines,
     headers |-> headers, headerEnds |-> headerEnds, body |-> body,
     errBody |-> errBody, exc |-> exc, ioFailed |-> ioFailed]

\* the handler instance of a request that has not started
FreshContext(r) ==
    [method |-> r[1], target |-> r[2], hasRange |-> r[3] # <<>>,
     rangeHdr |-> r[3], pc |-> "Start", path |-> <<>>, f |-> "none",
     fopen |-> FALSE, opened |-> 0, fpos |-> 0, buf |-> <<>>, file_size |-> 0,
     start_range |-> 0, end_range |-> 0, block_size |-> 0, ret |-> "unset",
     statusLines |-> <<>>, headers |-> <<>>, headerEnds |-> 0, body |-> <<>>,
     errBody |-> FALSE, exc |-> "none", ioFailed |-> FALSE]

\* the slot of the request whose handler is the running one
Running == [pc |-> "running", f |-> "none"]

\* the requests of the interleaved executions: <<method, target, Range>>
ConcRequests ==
    {<<"GET", T_file, BYTES_EQ \o <<"1", "-", "2">>>>,
     <<"HEAD", T_file, BYTES_EQ \o <<"x", "-">>>>,
     <<"GET", T_list, <<>>>>,
     <<"HEAD", T_sub, <<>>>>,
     <<"GET", T_unlistable, <<>>>>,
     <<"GET", T_dir, <<>>>>,
     <<"GET", T_dirSlash, <<>>>>,
     <<"GET", T_unopenable, <<>>>>}

InitConc ==
    /\ fsize = MaxSize
    /\ client = NoPrevious
    /\ cur = 1
    /\ \E rs \in [1..MaxRequests -> ConcRequests] :
          /\ method = rs[1][1]
          /\ target = rs[1][2]
          /\ hasRange = (rs[1][3] # <<>>)
          /\ rangeHdr = rs[1][3]
          /\ parked = [i \in 1..MaxRequests |->
                          IF i = 1 THEN Running ELSE FreshContext(rs[i])]
    /\ Fresh

\* the running handler is suspended where it stands and the handler of
\* request j goes on from where it stood
switch(j) ==
    /\ j # cur
    /\ cur' = j
    /\ parked' = [parked EXCEPT ![cur] = Context, ![j] = Running]
    /\ method' = parked[j].method
    /\ target' = parked[j].target
    /\ hasRange' = parked[j].hasRange
    /\ rangeHdr' = parked[j].rangeHdr
    /\ pc' = parked[j].pc
    /\ path' = parked[j].path
    /\ f' = parked[j].f
    /\ fopen' = parked[j].fopen
    /\ opened' = parked[j].opened
    /\ fpos' = parked[j].fpos
    /\ buf' = parked[j].buf
    /\ file_size' = parked[j].file_size
    /\ start_range' = parked[j].start_range
    /\ end_range' = parked[j].end_range
    /\ block_size' = parked[j].block_size
    /\ ret' = parked[j].ret
    /\ statusLines' = parked[j].statusLines
    /\ headers' = parked[j].headers
    /\ headerEnds' = parked[j].headerEnds
    /\ body' = parked[j].body
    /\ errBody' = parked[j].errBody
    /\ exc' = parked[j].exc
    /\ ioFailed' = parked[j].ioFailed
    /\ UNCHANGED <<fsize, client>>

switch_handler == \E j \in 1..Len(parked) : switch(j)

NextConc == Next \/ switch_handler

SpecConc == InitConc /\ [][NextConc]_vars

-----------------------------------------------------------------------------
(* What the properties below speak about.                                   *)

\* send_head has returned a window for an opened regular file
FileServed == ret = "tuple" /\ f = "file"

\* the value of the (case-insensitively named) response header
HeaderValue(names) ==
    headers[CHOOSE i \in 1..Len(headers) : headers[i][1] \in names][2]

HasHeader(names) == \E i \in 1..Len(headers) : headers[i][1] \in names

ContentLengthNames == {"Content-Length", "Content-length"}

\* the bytes at offsets [a, b) of the regular files
FileBytes(a, b) == [k \in 1..(b - a) |-> FileByte(a + k - 1)]

AllDigits(s) == \A i \in 1..Len(s) : IsDigit(s[i])

\* a Range value outside the grammar bytes=<digits>-<digits>: no "-" after the
\* unit, or a field that is not a decimal number
Malformed(h) ==
    LET v == SubSeq(h, 7, Len(h))
    IN  \/ Len(h) < 6
        \/ Len(h) >= 6 /\ SubSeq(h, 1, 6) # BYTES_EQ
        \/ Find(v, "-") = 0
        \/ ~AllDigits(SubSeq(v, 1, Find(v, "-") - 1))
        \/ ~AllDigits(SubSeq(v, Find(v, "-") + 1, Len(v)))

-----------------------------------------------------------------------------
(* C1: the window send_head returns for a file of length N satisfies        *)
(* 0 <= start <= end <= N, whatever the Range header.                       *)
C1_WindowWithinResource ==
    FileServed =>
        /\ 0 <= start_range
        /\ start_range <= end_range
        /\ end_range <= file_size

(* C2: for a GET answered with 200 or 206 in which no read or write fails,  *)
(* Content-Length equals end - start and equals the number of bytes do_GET  *)
(* writes.                                                                  *)
C2_ContentLengthIsBytesWritten ==
    (/\ pc = "Done"
     /\ method = "GET"
     /\ exc = "none"
     /\ ~ioFailed
     /\ statusLines # <<>>
     /\ statusLines[1] \in {200, 206})
        => /\ HasHeader(ContentLengthNames)
           /\ HeaderValue(ContentLengthNames) = Dec(end_range - start_range)
           /\ Len(body) = end_range - start_range

\* the length of the source do_GET streams from, as send_head took it
SourceLength == IF f = "StringIO" THEN Len(buf) ELSE fsize

\* the bytes of the source do_GET streams from
SourceBytes == IF f = "StringIO" THEN Utf8(buf) ELSE FileBytes(0, fsize)

(* C3: for a window with 0 <= start <= end <= N and no I/O failure, do_GET  *)
(* writes exactly end - start bytes, the source's bytes at [start, end).    *)
C3_BodyIsWindowOfSource ==
    (/\ pc = "Done"
     /\ method = "GET"
     /\ f # "none"
     /\ exc = "none"
     /\ ~ioFailed
     /\ 0 <= start_range
     /\ start_range <= end_range
     /\ end_range <= SourceLength)
        => /\ Len(body) = end_range - start_range
           /\ body = SubSeq(SourceBytes, start_range + 1, end_range)

(* C4: for Range: bytes=<s>-<e> with non-negative integer fields and a file *)
(* of length N the window is (s, e + 1) when both are given, (s, N) when    *)
(* only s is given, and (N - min(N, e), N) when only e is given.            *)
C4_WindowOfRangeHeader ==
    (FileServed /\ hasRange) =>
        \A a \in RangeNums :
            /\ \A b \in RangeNums :
                   rangeHdr = BYTES_EQ \o Dec(a) \o <<"-">> \o Dec(b)
                       => start_range = a /\ end_range = b + 1
            /\ rangeHdr = BYTES_EQ \o Dec(a) \o <<"-">>
                   => start_range = a /\ end_range = fsize
            /\ rangeHdr = BYTES_EQ \o <<"-">> \o Dec(a)
                   => start_range = fsize - Min(fsize, a) /\ end_range = fsize

\* bytes=1-2 on a file of three bytes has produced the window (1, 3)
C4_Witness ==
    /\ FileServed
    /\ hasRange
    /\ fsize = 3
    /\ rangeHdr = BYTES_EQ \o <<"1", "-", "2">>
    /\ start_range = 1
    /\ end_range = 3

(* C5: a Range header that is present and parsed on a request for an        *)
(* existing file gives status 206, also when the window is the whole file.  *)
C5_RangeGives206 ==
    (FileServed /\ hasRange) => statusLines = <<206>>

\* bytes=0- on a file: the window is the whole file and the status is 206
C5_Witness ==
    /\ FileServed
    /\ hasRange
    /\ rangeHdr = BYTES_EQ \o <<"0", "-">>
    /\ start_range = 0
    /\ end_range = fsize
    /\ fsize > 0
    /\ statusLines = <<206>>

(* C6: without a Range header a file of size N is answered with 200, the    *)
(* window (0, N), Content-Range: bytes 0-N/N and Content-Length: N.         *)
C6_NoRangeIsFullContent ==
    (FileServed /\ ~hasRange) =>
        /\ statusLines = <<200>>
        /\ start_range = 0
        /\ end_range = fsize
        /\ HasHeader({"Content-Range"})
        /\ HeaderValue({"Content-Range"})
               = LIT_bytes \o <<"0", "-">> \o Dec(fsize) \o <<"/">> \o Dec(fsize)
        /\ HasHeader({"Content-Length"})
        /\ IntOk(HeaderValue({"Content-Length"}))
        /\ IntVal(HeaderValue({"Content-Length"})) = fsize

\* a file longer than one chunk served whole
C6_Witness ==
    /\ FileServed
    /\ ~hasRange
    /\ fsize = BigSize
    /\ pc = "Done"
    /\ method = "GET"
    /\ Len(body) = BigSize
    /\ statusLines = <<200>>

(* C7: a Range header that cannot be parsed does not reject the request:    *)
(* send_head falls back to the window (0, N) and answers 200.               *)
C7_MalformedRangeFallsBack ==
    (/\ pc = "Done"
     /\ f = "file"
     /\ hasRange
     /\ Malformed(rangeHdr))
        => /\ exc = "none"
           /\ statusLines = <<200>>
           /\ start_range = 0
           /\ end_range = fsize

(* C8: Range: bytes=- is treated as no header: status, window,              *)
(* Content-Range and Content-Length are those of the request without one.   *)
C8_BytesDashIsNoHeader ==
    (FileServed /\ hasRange /\ rangeHdr = BYTES_EQ \o <<"-">>) =>
        /\ statusLines = <<StatusFor(FALSE)>>
        /\ start_range = RangeStart(FALSE, <<>>, fsize)
        /\ end_range = RangeEnd(FALSE, <<>>, fsize)
        /\ HeaderValue({"Content-Range"}) = ContentRange(0, fsize, fsize)
        /\ HeaderValue({"Content-Length"}) = Dec(fsize)

(* C9: no filesystem or parsing error leaves do_GET or do_HEAD uncaught:    *)
(* every request ends normally with one of 200, 206, 301, 404.              *)
C9_NoUncaughtFailure ==
    (pc = "Done" /\ ~ioFailed) =>
        /\ exc = "none"
        /\ statusLines # <<>>
        /\ statusLines[1] \in {200, 206, 301, 404}

(* C10: every handle opened for a request is closed when its handling ends. *)
C10_NoOpenHandleAtEnd ==
    pc = "Done" => ~fopen

(* C11: for every request-target, with "..", ".", empty segments, percent-   *)
(* encoded separators and drive qualifiers, with or without query or         *)
(* fragment, translate_path returns the root or a path below it.             *)
C11_PathWithinRoot ==
    pc # "Start" =>
        \A i \in 1..Len(path) :
            /\ path[i] \notin {<<>>, Dot, DotDot}
            /\ \A k \in 1..Len(path[i]) : path[i][k] # "/"

\* a relative target that climbs twice, once through an encoded separator,
\* has been resolved to the file below the root
C11_Witness ==
    /\ pc = "Done"
    /\ target = <<".", ".", "%", "2", "F", ".", ".", "/", ".", ".", "/", "f", ".", "t", "x", "t">>
    /\ path = <<N_f>>
    /\ exc = "none"
    /\ statusLines = <<200>>

(* C12: when the resolved path is a directory and the request-target lacks   *)
(* the trailing separator, the response is 301 with Location = the target    *)
(* plus a separator, the window is (0, 0), no handle is opened and no body   *)
(* byte is written, for GET and HEAD alike.                                  *)
C12_DirectoryRedirect ==
    (/\ pc \in {"Returned", "Done"}
     /\ isdir(translate_path(target))
     /\ ~EndsWith(target, "/"))
        => /\ statusLines = <<301>>
           /\ HasHeader({"Location"})
           /\ HeaderValue({"Location"}) = target \o <<"/">>
           /\ headerEnds = 1
           /\ start_range = 0
           /\ end_range = 0
           /\ f = "none"
           /\ opened = 0
           /\ body = <<>>
           /\ ~errBody
           /\ exc = "none"

\* GET /d?x has been answered with the redirect to /d?x/
C12_Witness ==
    /\ pc = "Done"
    /\ method = "GET"
    /\ target = T_dirQuery
    /\ client.kind = "none"
    /\ statusLines = <<301>>
    /\ HeaderValue({"Location"}) = <<"/", "d", "?", "x", "/">>
    /\ body = <<>>

C14_HeadMatchesGet ==
    (pc = "Done" /\ client.kind = "HEAD") =>
        /\ client.statusLines = statusLines
        /\ client.headers = headers
        /\ client.headerEnds = headerEnds
        /\ client.bodyLen = 0
        /\ ~client.errBody
        /\ ~client.fopen

\* a read or a write of the streaming loop has failed (a failed seek leaves
\* the budget at 0)
ChunkFailed == ioFailed /\ block_size > 0

(* C15: when a read or write fails at a chunk of do_GET's transfer, no       *)
(* further byte is written, no further status line or header is emitted,     *)
(* the error does not leave do_GET, and the handle is closed when the        *)
(* handling ends.                                                            *)
C15_TransferInterrupted ==
    [][ChunkFailed' =>
          /\ body' = body
          /\ statusLines' = statusLines
          /\ Len(statusLines') = 1
          /\ headers' = headers
          /\ headerEnds' = headerEnds
          /\ headerEnds' = 1
          /\ exc' = "none"
          /\ pc' \in {"Close", "Done"}
          /\ (pc' = "Done" => ~fopen')]_vars

\* the second chunk of a long file failed: the client has the first chunk
\* only, fewer bytes than Content-Length announced, and the handle is closed
C15_Witness ==
    /\ ChunkFailed
    /\ pc = "Done"
    /\ f = "file"
    /\ ~fopen
    /\ exc = "none"
    /\ Len(body) = chunk
    /\ IntVal(HeaderValue({"Content-Length"})) > chunk

(* C16: the handling goes through its steps in order: a file's headers are   *)
(* emitted only once its window is computed, no body byte is written before  *)
(* the header block is ended, and every handling ends with its header block  *)
(* emitted, no error left uncaught and no handle open.                       *)
C16_OrderedToClosed ==
    /\ (f = "file" /\ headerEnds >= 1) => pc \in {"Returned", "Stream", "Close", "Done"}
    /\ (body # <<>> \/ errBody) => headerEnds >= 1
    /\ pc = "Done" => (headerEnds = 1 /\ exc = "none" /\ ~fopen)

(* C17: on every path one status line and one header block are written, and  *)
(* a GET writes at most one body after them.                                 *)
C17_OneStatusOneHeaderBlock ==
    /\ Len(statusLines) <= 1
    /\ headerEnds <= 1
    /\ pc = "Done" => (Len(statusLines) = 1 /\ headerEnds = 1)
    /\ ~(errBody /\ body # <<>>)
    /\ method = "HEAD" => body = <<>>

(* C18: the loop's budget starts at end - start, each iteration takes        *)
(* min(4096, budget) from it and writes at most 4096 bytes, the budget never *)
(* goes below zero, and with end - start <= 0 nothing is written.            *)
C18_LoopBudget ==
    [][/\ (pc # "Stream" /\ pc' = "Stream") => block_size' = end_range - start_range
       /\ (pc = "Stream" /\ pc' = "Stream") =>
              /\ block_size' = block_size - Min(chunk, block_size)
              /\ block_size' < block_size
              /\ block_size' >= 0
              /\ Len(body') - Len(body) <= chunk
       /\ (pc = "Stream" /\ pc' = "Close" /\ end_range - start_range <= 0) =>
              body' = <<>>
       /\ (pc = "Close" /\ pc' = "Done") => ~fopen']_vars

\* the bytes a GET that met no error wrote are those of its own source, and
\* a listing buffer holds the listing of its own request
AsAlone ==
    /\ f = "StringIO" => buf = ListingText(path, target)
    /\ (pc = "Done" /\ method = "GET" /\ exc = "none" /\ ~ioFailed /\ f = "StringIO") =>
           body = Utf8(ListingText(path, target))
    /\ (pc = "Done" /\ method = "GET" /\ exc = "none" /\ ~ioFailed /\ f = "file") =>
           body = FileRead(start_range, end_range - start_range)
    /\ (pc = "Done" /\ exc = "none") => ~fopen

(* C19: with several requests in flight, a step of one handler leaves every  *)
(* other request's fields, handle and listing buffer as they were, a request *)
(* that is resumed finds its own as it left them, the file system is not     *)
(* written, and what a request wrote is what it writes when it runs alone.   *)
C19_RequestsIsolated ==
    /\ []AsAlone
    /\ [][/\ fsize' = fsize
          /\ cur' = cur => parked' = parked
          /\ cur' # cur =>
                 /\ Context' = parked[cur']
                 /\ parked'[cur] = Context
                 /\ \A i \in 1..Len(parked) \ {cur, cur'} : parked'[i] = parked[i]]_vars

\* one request has failed with its handle open while another request is in
\* the middle of streaming its own listing
C19_Witness ==
    /\ pc = "Done"
    /\ exc = "ValueError"
    /\ fopen
    /\ \E i \in 1..Len(parked) :
          /\ i # cur
          /\ parked[i].pc = "Stream"
          /\ parked[i].f = "StringIO"
          /\ parked[i].buf = ListingText(parked[i].path, parked[i].target)
          /\ parked[i].block_size > 0

(* C20: the request for the Location of a 301 resolves to the directory the  *)
(* redirected request resolved to and is never answered with 301: its        *)
(* answer is the index file, the listing or 404.                             *)
C20_RedirectsEnd ==
    client.kind = "redirect" =>
        /\ client.statusLines = <<301>>
        /\ target = client.target \o <<"/">>
        /\ translate_path(target) = client.dir
        /\ isdir(client.dir)
        /\ \A i \in 1..Len(statusLines) : statusLines[i] # 301
        /\ pc = "Done" =>
               /\ Len(statusLines) = 1
               /\ statusLines[1] \in {200, 404}
               /\ path \in {client.dir, Append(client.dir, N_index)}

\* /d?x was answered with 301 and Location /d?x/; the request for /d?x/ is
\* answered 200 with d/index.html
C20_Witness ==
    /\ client.kind = "redirect"
    /\ client.target = T_dirQuery
    /\ target = <<"/", "d", "?", "x", "/">>
    /\ pc = "Done"
    /\ method = "GET"
    /\ statusLines = <<200>>
    /\ path = <<N_d, N_index>>
    /\ exc = "none"
    /\ body # <<>>

====
